---- MODULE Spec2Model ----
(***************************************************************************)
(* Model of the speaker-event finder pipeline:                             *)
(*   search fan-out   (services/search_service.py, providers/firecrawl)    *)
(*   content combiner (services/search_service.py)                         *)
(*   event extractor  (services/extract_service.py)                        *)
(*   batch extraction (services/extract_service.py)                        *)
(*   deduplicator     (utils/dedupe.py)                                    *)
(*   request workflow (routes/api.py)                                      *)
(*   source batching  (services/extract_service.py)                        *)
(*   client factory   (clients/factory.py)                                 *)
(* Each component has its own specification over the shared variables; a   *)
(* component that a specification does not exercise stays in its idle      *)
(* state.                                                                  *)
(***************************************************************************)
EXTENDS Integers, Sequences, FiniteSets, TLC

VARIABLES
    \* search fan-out
    sPc,        \* position of search_sources_concurrently
    fut,        \* state of each submitted future
    provOut,    \* what the provider call of each query did
    futData,    \* value held by each done future
    yielded,    \* futures as_completed has already handed out
    results,    \* the results list being built
    sTimedOut,  \* as_completed raised TimeoutError
    \* content combiner
    cPc, cResults, cPerm, cMax, cOut, cOutPerm,
    \* event extractor
    xPc, xResp, xFilter, xSort, xOut, nIn, nOut,
    \* deduplicator
    dPc, dIn, dOut, dOut2,
    dArg,       \* the caller's list as dedupe_events leaves it
    \* batch extraction
    bPc, bFut, bKind, bEvents, all_events, bOut,
    \* request workflow
    wPc,        \* position of _execute_search_workflow
    wCalls,     \* model calls made for the request
    wOut,       \* the events list of the workflow
    \* source batching
    tPc, tIn, tSize, tCap, tOut,
    \* client factory
    handle,     \* the class attributes _firecrawl and _openai
    apiKey,     \* whether the API key of each kind is set
    built,      \* how many clients of each kind have been constructed
    fPc,        \* position of each worker in its factory call
    fKind,      \* the kind of client the worker asks for
    fNew,       \* the client the worker has constructed
    fRet        \* the client the factory call returned to the worker

searchVars  == <<sPc, fut, provOut, futData, yielded, results, sTimedOut>>
combineVars == <<cPc, cResults, cPerm, cMax, cOut, cOutPerm>>
extractVars == <<xPc, xResp, xFilter, xSort, xOut, nIn, nOut>>
dedupeVars  == <<dPc, dIn, dOut, dOut2, dArg>>
batchVars   == <<bPc, bFut, bKind, bEvents, all_events, bOut>>
workflowVars == <<wPc, wCalls, wOut>>
splitVars   == <<tPc, tIn, tSize, tCap, tOut>>
factoryVars == <<handle, apiKey, built, fPc, fKind, fNew, fRet>>
vars == <<searchVars, combineVars, extractVars, dedupeVars, batchVars,
          workflowVars, splitVars, factoryVars>>

notSearch  == <<combineVars, extractVars, dedupeVars, batchVars, workflowVars, splitVars, factoryVars>>
notCombine == <<searchVars, extractVars, dedupeVars, batchVars, workflowVars, splitVars, factoryVars>>
notExtract == <<searchVars, combineVars, dedupeVars, batchVars, workflowVars, splitVars, factoryVars>>
notDedupe  == <<searchVars, combineVars, extractVars, batchVars, workflowVars, splitVars, factoryVars>>
notBatch   == <<searchVars, combineVars, extractVars, dedupeVars, workflowVars, splitVars, factoryVars>>

None == "None"

Min(a, b) == IF a <= b THEN a ELSE b

Range(s) == {s[i] : i \in 1..Len(s)}

\* ------------------------------------------------------------------------
\* Idle states of the components
\* ------------------------------------------------------------------------
IdleSearch ==
    /\ sPc = "idle" /\ fut = <<>> /\ provOut = <<>> /\ futData = <<>>
    /\ yielded = {} /\ results = <<>> /\ sTimedOut = FALSE

IdleCombine ==
    /\ cPc = "idle" /\ cResults = <<>> /\ cPerm = <<>> /\ cMax = 0
    /\ cOut = [raised |-> FALSE, content |-> <<>>]
    /\ cOutPerm = [raised |-> FALSE, content |-> <<>>]

IdleExtract ==
    /\ xPc = "idle" /\ xResp = [kind |-> "none", events |-> <<>>]
    /\ xFilter = None /\ xSort = "asc"
    /\ xOut = [raised |-> FALSE, events |-> <<>>]
    /\ nIn = None /\ nOut = [raised |-> FALSE, event |-> None]

IdleDedupe ==
    /\ dPc = "idle" /\ dIn = <<>>
    /\ dOut = [raised |-> FALSE, events |-> <<>>]
    /\ dOut2 = [raised |-> FALSE, events |-> <<>>]
    /\ dArg = <<>>

IdleBatch ==
    /\ bPc = "idle" /\ bFut = <<>> /\ bKind = <<>> /\ bEvents = <<>>
    /\ all_events = <<>> /\ bOut = <<>>

IdleWorkflow ==
    /\ wPc = "idle" /\ wCalls = 0 /\ wOut = <<>>

IdleSplit ==
    /\ tPc = "idle" /\ tIn = <<>> /\ tSize = 1 /\ tCap = 1 /\ tOut = <<>>

IdleFactory ==
    /\ handle = <<>> /\ apiKey = <<>> /\ built = <<>>
    /\ fPc = <<>> /\ fKind = <<>> /\ fNew = <<>> /\ fRet = <<>>

\* ========================================================================
\* Search fan-out
\* ========================================================================

\* number of queries _generate_search_queries produces (one per provider entry)
NumQueries == 3
\* settings.MAX_WORKERS
MAX_WORKERS == 2
\* most items one provider call returns (settings.SEARCH_LIMIT)
SEARCH_LIMIT == 2

Queries == 1..NumQueries

\* What one call fc.search(query, params) can do.
ProviderOutcomes ==
    {[kind |-> k, n |-> 0] : k \in {"no_client", "raise", "no_results", "none"}}
    \cup {[kind |-> "items", n |-> n] : n \in 0..SEARCH_LIMIT}
    \cup {[kind |-> "bad_items", n |-> 1]}

\* The provider call of the query has not ended.
NoOutcome == [kind |-> "pending", n |-> 0]

\* The number of result items the provider handed back for a call.
ResultCount(o) == IF o.kind \in {"items", "bad_items"} THEN o.n ELSE 0

\* search_firecrawl: [] without a client and on every exception (the
\* "No search results found" signal included), otherwise the provider's data.
search_firecrawl(q, o) ==
    CASE o.kind = "no_client"  -> [isNone |-> FALSE, items |-> <<>>]
      [] o.kind = "raise"      -> [isNone |-> FALSE, items |-> <<>>]
      [] o.kind = "no_results" -> [isNone |-> FALSE, items |-> <<>>]
      [] o.kind = "none"       -> [isNone |-> TRUE, items |-> <<>>]
      [] o.kind = "items"      ->
            [isNone |-> FALSE, items |-> [i \in 1..o.n |-> [url |-> <<q, i>>, dict |-> TRUE]]]
      [] o.kind = "bad_items"  ->
            [isNone |-> FALSE, items |-> [i \in 1..o.n |-> [url |-> <<q, i>>, dict |-> FALSE]]]

\* _execute_single_search: data = search_firecrawl(query) or []; tags every
\* item with the query and the provider; any exception (an item that is not a
\* dict has no setdefault) gives [].
_execute_single_search(q, o) ==
    LET raw  == search_firecrawl(q, o)
        data == IF raw.isNone THEN <<>> ELSE raw.items
    IN  IF \E i \in 1..Len(data) : ~data[i].dict
        THEN <<>>
        ELSE [i \in 1..Len(data) |->
                [url |-> data[i].url,
                 _meta |-> [query |-> q, provider |-> "firecrawl"]]]

\* ThreadPoolExecutor(max_workers=min(MAX_WORKERS, len(queries) or 1))
PoolSize == Min(MAX_WORKERS, IF NumQueries = 0 THEN 1 ELSE NumQueries)

Running == {q \in Queries : fut[q] = "running"}

InitSearch ==
    /\ sPc = "collect"
    /\ fut = [q \in Queries |-> "pending"]
    /\ provOut = [q \in Queries |-> NoOutcome]
    /\ futData = [q \in Queries |-> <<>>]
    /\ yielded = {}
    /\ results = <<>>
    /\ sTimedOut = FALSE
    /\ IdleCombine /\ IdleExtract /\ IdleDedupe /\ IdleBatch
    /\ IdleWorkflow /\ IdleSplit /\ IdleFactory

\* A pool thread takes the next queued work item (FIFO).
WorkerStart(q) ==
    /\ fut[q] = "pending"
    /\ \A p \in Queries : p < q => fut[p] # "pending"
    /\ Cardinality(Running) < PoolSize
    /\ fut' = [fut EXCEPT ![q] = "running"]
    /\ UNCHANGED <<sPc, provOut, futData, yielded, results, sTimedOut, notSearch>>

\* The provider call of a running worker ends and the worker returns.
WorkerFinish(q, o) ==
    /\ fut[q] = "running"
    /\ fut' = [fut EXCEPT ![q] = "done"]
    /\ provOut' = [provOut EXCEPT ![q] = o]
    /\ futData' = [futData EXCEPT ![q] = _execute_single_search(q, o)]
    /\ UNCHANGED <<sPc, yielded, results, sTimedOut, notSearch>>

\* One iteration of "for future in as_completed(...)": results.extend(data)
\* when data is non-empty.
CollectOne(q) ==
    /\ sPc = "collect"
    /\ fut[q] = "done" /\ q \notin yielded
    /\ yielded' = yielded \cup {q}
    /\ results' = IF futData[q] # <<>> THEN results \o futData[q] ELSE results
    /\ UNCHANGED <<sPc, fut, provOut, futData, sTimedOut, notSearch>>

\* as_completed has handed out every future: the loop ends.
CollectDone ==
    /\ sPc = "collect"
    /\ yielded = Queries
    /\ sPc' = "exit"
    /\ UNCHANGED <<fut, provOut, futData, yielded, results, sTimedOut, notSearch>>

\* NoCatch: the TimeoutError of as_completed leaves the function.
SearchTimeout_NoCatch ==
    /\ sPc = "collect"
    /\ yielded # Queries
    /\ sPc' = "raised"
    /\ sTimedOut' = TRUE
    /\ UNCHANGED <<fut, provOut, futData, yielded, results, notSearch>>

\* SEARCH_TIMEOUT_SEC passes while futures are outstanding: as_completed
\* raises TimeoutError, which the outer "except Exception" logs.
SearchTimeout ==
    /\ sPc = "collect"
    /\ yielded # Queries
    /\ sPc' = "exit"
    /\ sTimedOut' = TRUE
    /\ UNCHANGED <<fut, provOut, futData, yielded, results, notSearch>>

\* Leaving the "with ThreadPoolExecutor" block calls shutdown(wait=True):
\* the function returns only when every submitted work item has run.
SearchReturn ==
    /\ sPc = "exit"
    /\ \A q \in Queries : fut[q] = "done"
    /\ sPc' = "returned"
    /\ UNCHANGED <<fut, provOut, futData, yielded, results, sTimedOut, notSearch>>

NextSearch ==
    \/ \E q \in Queries : WorkerStart(q)
    \/ \E q \in Queries, o \in ProviderOutcomes : WorkerFinish(q, o)
    \/ \E q \in Queries : CollectOne(q)
    \/ CollectDone
    \/ SearchTimeout
    \/ SearchReturn

SpecSearch ==
    /\ InitSearch
    /\ [][NextSearch]_vars

\* Items of the returned list that come from query q.
ItemsOf(q) == {i \in 1..Len(results) : results[i]._meta.query = q}

\* C1: search_sources_concurrently never raises and returns a list; a query
\* whose provider call raised, returned nothing or signalled "no results"
\* contributes no item, and no query contributes more items than its provider
\* call returned, so the list is no longer than the sum of the result counts.
SearchNeverRaises ==
    /\ sPc \in {"collect", "exit", "returned"}
    /\ results \in Seq({[url |-> <<q, i>>, _meta |-> [query |-> q, provider |-> "firecrawl"]] :
                           q \in Queries, i \in 1..SEARCH_LIMIT})
    /\ \A q \in Queries :
          /\ Cardinality(ItemsOf(q)) <= ResultCount(provOut[q])
          /\ provOut[q].kind \in {"pending", "no_client", "raise", "no_results", "none"}
                => ItemsOf(q) = {}

\* A run where the deadline expired, one provider call had raised, one had
\* signalled "no results", and the function returned some results.
SearchNeverRaisesWitness ==
    /\ sPc = "returned"
    /\ sTimedOut
    /\ \E q \in Queries : provOut[q].kind = "raise"
    /\ \E q \in Queries : provOut[q].kind = "no_results"
    /\ Len(results) > 0

\* C2: once the deadline has expired the function can return at once,
\* whatever the workers are doing: its return does not wait for a provider
\* call that is still running.
ReturnNotDelayed ==
    (sPc = "exit" /\ sTimedOut) => ENABLED SearchReturn

\* ========================================================================
\* Content prioritizer / combiner
\* ========================================================================

\* most results in one call of smart_combine_markdown
MaxResults == 3
\* len(speaker_name) of the request ("Jane Doe")
SpeakerLen == 8
\* "remaining_chars = max_chars - total_chars - 400"
TRUNCATION_RESERVE == 400
\* "if remaining_chars > 3000 and ..."
MIN_REMAINING == 3000

\* The queries of settings.SEARCH_PROVIDERS, named by their provider entry.
Providers ==
    {"general", "eventbrite", "meetup", "official_site", "conferences", "speaker_bureau"}

\* len(query): the template's own characters plus the speaker's name.
QueryLen(q) ==
    SpeakerLen +
    CASE q = "general"        -> 55
      [] q = "eventbrite"     -> 66
      [] q = "meetup"         -> 47
      [] q = "official_site"  -> 63
      [] q = "conferences"    -> 56
      [] q = "speaker_bureau" -> 57

\* query.split()[0]: the first blank-separated token of the query text.
SourceType(q) ==
    CASE q = "eventbrite" -> "site:eventbrite.com"
      [] q = "meetup"     -> "site:meetup.com"
      [] OTHER            -> "\"Jane"

\* A markdown body: its text, its length and what the substring tests of the
\* combiner find in it.  none: the "markdown" key holds None.
Body(text, len, blank, mention, quality, recent) ==
    [text |-> text, len |-> len, none |-> FALSE, blank |-> blank,
     mention |-> mention, quality |-> quality, recent |-> recent]

NoneBody ==
    [text |-> "None", len |-> 0, none |-> TRUE, blank |-> TRUE,
     mention |-> FALSE, quality |-> FALSE, recent |-> FALSE]

\* The search results the combiner is exercised with.
ResultUniverse ==
    { [url |-> "https://a.example/jane", query |-> "general",
       markdown |-> Body("bioA", 120, FALSE, TRUE, TRUE, TRUE)],
      [url |-> "https://b.example/jane", query |-> "conferences",
       markdown |-> Body("bioB", 120, FALSE, TRUE, TRUE, TRUE)],
      [url |-> "https://www.eventbrite.com/e/1", query |-> "eventbrite",
       markdown |-> Body("listing", 5000, FALSE, FALSE, TRUE, FALSE)],
      [url |-> "https://jane.example/calendar", query |-> "official_site",
       markdown |-> Body("calendar", 6000, FALSE, TRUE, FALSE, TRUE)],
      [url |-> "https://c.example/empty", query |-> "meetup",
       markdown |-> Body("   ", 3, TRUE, FALSE, FALSE, FALSE)],
      [url |-> "https://d.example/null", query |-> "speaker_bureau",
       markdown |-> NoneBody] }

\* The values of max_chars: unset, smaller than any source, and two budgets
\* that make the truncation and the omission branch happen.
MaxCharsValues == {0, 100, 4000, 9000}

\* One of ".com/events", "/calendar", "/schedule" occurs in the url.
UrlIsOfficial(url) == url \in {"https://jane.example/calendar"}

\* get_source_priority: +10 for the speaker's name in the body, +5 / +3 / +4
\* by what the query text (and the url) contains, +2 for a quality word and +1
\* for a near-term year in the body.
get_source_priority(r) ==
    (IF r.markdown.mention THEN 10 ELSE 0)
    + (IF r.query = "official_site" \/ UrlIsOfficial(r.url)
       THEN 5
       ELSE IF r.query \in {"eventbrite", "meetup"} THEN 3
       ELSE IF r.query \in {"speaker_bureau", "general", "conferences"} THEN 4
       ELSE 0)
    + (IF r.markdown.quality THEN 2 ELSE 0)
    + (IF r.markdown.recent THEN 1 ELSE 0)

\* The sort key (-priority, -len(markdown)) puts a before b.
KeyBefore(a, b) ==
    \/ get_source_priority(a) > get_source_priority(b)
    \/ /\ get_source_priority(a) = get_source_priority(b)
       /\ a.markdown.len > b.markdown.len

\* sorted() is stable: an element goes behind every element that is not
\* strictly after it.
SortedInsert(s, r) ==
    LET k == Cardinality({i \in 1..Len(s) : ~KeyBefore(r, s[i])})
    IN  SubSeq(s, 1, k) \o <<r>> \o SubSeq(s, k + 1, Len(s))

RECURSIVE StableSort(_)
StableSort(rs) ==
    IF rs = <<>> THEN <<>>
    ELSE SortedInsert(StableSort(SubSeq(rs, 1, Len(rs) - 1)), rs[Len(rs)])

\* _prioritize_sources_by_accuracy; a None markdown has no lower().
PrioritizeRaises(rs) == \E i \in 1..Len(rs) : rs[i].markdown.none
_prioritize_sources_by_accuracy(rs) == StableSort(rs)

\* The pieces that "\n".join(content) joins.
SourceLine(q)       == [k |-> "Source", query |-> q, text |-> "", cut |-> -1, a |-> 0, b |-> 0]
ContentLine(md)     == [k |-> "Content", query |-> "", text |-> md.text, cut |-> -1, a |-> md.len, b |-> 0]
TruncatedLine(md, n, mention) ==
    [k |-> "Truncated", query |-> "", text |-> md.text, cut |-> n, a |-> IF mention THEN 1 ELSE 0, b |-> 0]
SeparatorLine       == [k |-> "---", query |-> "", text |-> "", cut |-> -1, a |-> 0, b |-> 0]
SummaryLine(om, sm) == [k |-> "Summary", query |-> "", text |-> "", cut |-> -1, a |-> om, b |-> sm]

\* len(str(n)) for the small counts of the summary line.
DecLen(n) == IF n < 10 THEN 1 ELSE IF n < 100 THEN 2 ELSE 3

\* len() of the two bracketed notices, leading newline included.
TruncatedNoticeLen(mention) == 57 + (IF mention THEN 4 ELSE 5)
SummaryNoticeLen(om, sm) == 113 + DecLen(om) + DecLen(sm)

LineLen(l) ==
    CASE l.k = "Source"    -> 8 + QueryLen(l.query)
      [] l.k = "Content"   -> 9 + l.a
      [] l.k = "Truncated" -> 9 + l.cut + TruncatedNoticeLen(l.a = 1)
      [] l.k = "---"       -> 3
      [] l.k = "Summary"   -> SummaryNoticeLen(l.a, l.b)

RECURSIVE SumLineLen(_)
SumLineLen(ls) == IF ls = <<>> THEN 0 ELSE LineLen(Head(ls)) + SumLineLen(Tail(ls))

\* len("\n".join(content))
JoinedLen(ls) == IF ls = <<>> THEN 0 ELSE SumLineLen(ls) + Len(ls) - 1

\* len(f"Source: {query}\nContent: {md}\n---\n")
SourceBlockLen(r) == 8 + QueryLen(r.query) + 1 + 9 + r.markdown.len + 1 + 3 + 1

\* The body of "for result in sorted_results", from index i on.
RECURSIVE CombineLoop(_, _, _, _)
CombineLoop(sorted, i, max_chars, st) ==
    IF i > Len(sorted) THEN st
    ELSE
      LET r  == sorted[i]
          md == r.markdown
          has_speaker_mention == md.mention
          source_type == SourceType(r.query)
          mentions == st.speaker_mentions + (IF has_speaker_mention THEN 1 ELSE 0)
          remaining_chars == max_chars - st.total_chars - TRUNCATION_RESERVE
      IN  IF md.blank
          THEN CombineLoop(sorted, i + 1, max_chars, st)
          ELSE IF st.total_chars + SourceBlockLen(r) > max_chars /\ st.sources_included > 0
          THEN IF /\ remaining_chars > MIN_REMAINING
                  /\ (has_speaker_mention \/ source_type \notin st.source_types)
               THEN [st EXCEPT
                       !.content = @ \o <<SourceLine(r.query),
                                          TruncatedLine(md, Min(md.len, remaining_chars),
                                                        has_speaker_mention),
                                          SeparatorLine>>,
                       !.sources_included = @ + 1,
                       !.source_types = @ \cup {source_type},
                       !.speaker_mentions = mentions + (IF has_speaker_mention THEN 1 ELSE 0)]
               ELSE [st EXCEPT
                       !.content = @ \o <<SummaryLine(Len(sorted) - st.sources_included, mentions)>>,
                       !.speaker_mentions = mentions]
          ELSE CombineLoop(sorted, i + 1, max_chars,
                  [content |-> st.content \o <<SourceLine(r.query), ContentLine(md), SeparatorLine>>,
                   total_chars |-> st.total_chars + SourceBlockLen(r),
                   sources_included |-> st.sources_included + 1,
                   source_types |-> st.source_types \cup {source_type},
                   speaker_mentions |-> mentions])

\* simple_combine_markdown(raw_results) reads the name "results", which is
\* neither a parameter nor a global of the module: NameError.
simple_combine_markdown(rs) == [raised |-> TRUE, content |-> <<>>]

\* smart_combine_markdown(results, max_chars, speaker_name)
smart_combine_markdown(rs, max_chars) ==
    IF max_chars = 0 THEN simple_combine_markdown(rs)
    ELSE IF PrioritizeRaises(rs) THEN [raised |-> TRUE, content |-> <<>>]
    ELSE [raised |-> FALSE,
          content |-> CombineLoop(_prioritize_sources_by_accuracy(rs), 1, max_chars,
                          [content |-> <<>>, total_chars |-> 0, sources_included |-> 0,
                           source_types |-> {}, speaker_mentions |-> 0]).content]

\* The lists of at most n results.
ResultLists(n) == UNION {[1..k -> ResultUniverse] : k \in 0..n}

\* The permutations of 1..n, as functions.
Perms(n) == {f \in [1..n -> 1..n] : \A i, j \in 1..n : i # j => f[i] # f[j]}

NoOutput == [raised |-> FALSE, content |-> <<>>]

InitCombine ==
    /\ cPc = "start"
    /\ cResults \in ResultLists(MaxResults)
    /\ cPerm = cResults
    /\ cMax \in MaxCharsValues
    /\ cOut = NoOutput /\ cOutPerm = NoOutput
    /\ IdleSearch /\ IdleExtract /\ IdleDedupe /\ IdleBatch
    /\ IdleWorkflow /\ IdleSplit /\ IdleFactory

\* The search stage hands the same results over in another completion order.
Reorder ==
    /\ cPc = "start"
    /\ \E f \in Perms(Len(cResults)) :
          cPerm' = [i \in 1..Len(cResults) |-> cResults[f[i]]]
    /\ cPc' = "ordered"
    /\ UNCHANGED <<cResults, cMax, cOut, cOutPerm, notCombine>>

\* smart_combine_markdown is called on both orders.
Combine ==
    /\ cPc = "ordered"
    /\ cOut' = smart_combine_markdown(cResults, cMax)
    /\ cOutPerm' = smart_combine_markdown(cPerm, cMax)
    /\ cPc' = "combined"
    /\ UNCHANGED <<cResults, cPerm, cMax, notCombine>>

NextCombine == Reorder \/ Combine

SpecCombine == InitCombine /\ [][NextCombine]_vars

\* The longer of the two notices the combiner can append.
MarkerAllowance == SummaryNoticeLen(99, 99)

\* C3: for a positive max_chars the combined string is at most max_chars plus
\* one truncation marker long, also when the first source alone is larger
\* than max_chars.
CombinedWithinBudget ==
    (cPc = "combined" /\ cMax > 0 /\ ~cOut.raised)
        => JoinedLen(cOut.content) <= cMax + MarkerAllowance

\* C4: the combined string does not depend on the order in which the same
\* results are passed.
CombineOrderIndependent ==
    cPc = "combined" => cOutPerm = cOut

\* The loop of simple_combine_markdown over a list: a Source line, a Content
\* line and a separator for every result whose markdown is not blank.
RECURSIVE ConcatAll(_)
ConcatAll(rs) ==
    IF rs = <<>> THEN <<>>
    ELSE IF rs[1].markdown.none \/ rs[1].markdown.blank
         THEN ConcatAll(Tail(rs))
         ELSE <<SourceLine(rs[1].query), ContentLine(rs[1].markdown), SeparatorLine>>
              \o ConcatAll(Tail(rs))

\* C19: when max_chars is unset (None or 0), smart_combine_markdown returns
\* the unbounded concatenation, in input order, of a per-source header and
\* body for every result whose body is not blank.
UnsetBudgetConcatenates ==
    (cPc = "combined" /\ cMax = 0) =>
        /\ ~cOut.raised
        /\ cOut.content = ConcatAll(cResults)

\* ========================================================================
\* Event extractor: parsing, validation and normalization of a model response
\* ========================================================================

\* most candidate events in one model response
MaxCandidates == 2

\* JSON values as the parser sees them.  t is the type; s holds a string's
\* text (or an object's str()), n a number (or a boolean, or an object's
\* number of keys), l a list's elements.  A string of the form YYYY-MM-DD is
\* DateStr(y, m, d): its text is the form and n encodes the three numbers.
Absent     == [t |-> "absent", s |-> "", n |-> 0, l |-> <<>>]
Null       == [t |-> "null",   s |-> "", n |-> 0, l |-> <<>>]
Str(s)     == [t |-> "str",    s |-> s,  n |-> 0, l |-> <<>>]
Num(n)     == [t |-> "num",    s |-> "", n |-> n, l |-> <<>>]
Bool(b)    == [t |-> "bool",   s |-> "", n |-> IF b THEN 1 ELSE 0, l |-> <<>>]
List(l)    == [t |-> "list",   s |-> "", n |-> 0, l |-> l]
Obj(n, s)  == [t |-> "obj",    s |-> s,  n |-> n, l |-> <<>>]
DateStr(y, m, d) == [t |-> "str", s |-> "Y-M-D", n |-> y * 10000 + m * 100 + d, l |-> <<>>]
\* The same date written without leading zeros, as in "2026-5-1".
DateStrShort(y, m, d) == [t |-> "str", s |-> "Y-m-d", n |-> y * 10000 + m * 100 + d, l |-> <<>>]

\* dict.get(key): a missing key reads as None.
Get(v) == IF v.t = "absent" THEN Null ELSE v
\* dict.get(key, default)
GetOr(v, default) == IF v.t = "absent" THEN default ELSE v

\* Python truthiness.
Truthy(v) ==
    CASE v.t \in {"absent", "null"} -> FALSE
      [] v.t = "str"  -> v.s # ""
      [] v.t = "num"  -> v.n # 0
      [] v.t = "bool" -> v.n = 1
      [] v.t = "list" -> v.l # <<>>
      [] v.t = "obj"  -> v.n > 0

\* str(v)
PyStr(v) ==
    CASE v.t \in {"absent", "null"} -> "None"
      [] v.t = "str"  -> v.s
      [] v.t = "num"  -> ToString(v.n)
      [] v.t = "bool" -> IF v.n = 1 THEN "True" ELSE "False"
      [] v.t = "list" -> "[...]"
      [] v.t = "obj"  -> v.s

\* date.today() of the run.
Today == [y |-> 2026, m |-> 3, d |-> 10]

IsLeap(y) == (y % 4 = 0 /\ y % 100 # 0) \/ y % 400 = 0

DaysInMonth(y, m) ==
    IF m = 2 THEN (IF IsLeap(y) THEN 29 ELSE 28)
    ELSE IF m \in {4, 6, 9, 11} THEN 30 ELSE 31

\* datetime.strptime(v, '%Y-%m-%d').date(): TypeError for a non-string,
\* ValueError for a string of another form or a date the calendar lacks;
\* %m and %d also match a single digit.
strptime(v) ==
    LET y == v.n \div 10000
        m == (v.n \div 100) % 100
        d == v.n % 100
    IN  IF /\ v.t = "str" /\ v.s \in {"Y-M-D", "Y-m-d"}
           /\ y \in 1..9999 /\ m \in 1..12 /\ d \in 1..DaysInMonth(y, m)
        THEN [ok |-> TRUE, y |-> y, m |-> m, d |-> d]
        ELSE [ok |-> FALSE, y |-> 0, m |-> 0, d |-> 0]

\* a < b on dates
DateBefore(a, b) ==
    \/ a.y < b.y
    \/ a.y = b.y /\ a.m < b.m
    \/ a.y = b.y /\ a.m = b.m /\ a.d < b.d

\* Strict: "event_date > today"
IsFuture_Strict(dt) == DateBefore(Today, dt)

\* "event_date >= today"
IsFuture(dt) == ~DateBefore(dt, Today)

\* str.lower() on the event_type and location texts of the model.
Lower(s) ==
    CASE s = "Online"       -> "online"
      [] s = "VIRTUAL"      -> "virtual"
      [] s = "In-Person"    -> "in-person"
      [] s = "Zoom"         -> "zoom"
      [] s = "Grand Hotel"  -> "grand hotel"
      [] s = "San Francisco" -> "san francisco"
      [] s = "Paris"        -> "paris"
      [] s = "Online Hall"  -> "online hall"
      [] s = " TechConf "   -> " techconf "
      [] s = "TechConf"     -> "techconf"
      [] s = "DevDay"       -> "devday"
      [] OTHER              -> s

\* any(word in location for word in ["virtual","online","zoom","webinar","remote"])
HasOnlineWord(loc) == loc \in {"zoom", "online hall"}
\* any(word in location for word in ["hotel","center","venue","hall","address"])
HasVenueWord(loc) == loc \in {"grand hotel", "online hall"}

\* NoWrap: a bare string is left as it is.
NormalizeSpeakers_NoWrap(speakers) ==
    IF speakers.t \in {"str", "list"} THEN speakers
    ELSE IF Truthy(speakers) THEN List(<<PyStr(speakers)>>) ELSE List(<<>>)

\* "Normalize speakers field to always be an array": value of
\* event["speakers"] after _normalize_event_data, for speakers = event.get("speakers").
NormalizeSpeakers(speakers) ==
    IF speakers.t = "str" THEN List(<<speakers.s>>)
    ELSE IF speakers.t # "list"
         THEN (IF Truthy(speakers) THEN List(<<PyStr(speakers)>>) ELSE List(<<>>))
         ELSE speakers

\* A candidate event of the response; dict = FALSE for an array element that
\* is not an object.
Candidate(name, date, location, url, speakers, event_type) ==
    [dict |-> TRUE, event_name |-> name, date |-> date, location |-> location,
     url |-> url, speakers |-> speakers, event_type |-> event_type]

NotADict ==
    [dict |-> FALSE, event_name |-> Absent, date |-> Absent, location |-> Absent,
     url |-> Absent, speakers |-> Absent, event_type |-> Absent]

\* _normalize_event_data(event): raised when event_type or location is not a
\* string (None has no lower()); otherwise the event with event_type and
\* speakers rewritten.
_normalize_event_data(event) ==
    LET et      == GetOr(event.event_type, Str(""))
        raw     == Lower(et.s)
        loc     == GetOr(event.location, Str(""))
        needLoc == raw \notin {"virtual", "remote", "webinar", "live", "physical",
                               "venue", "conference", "online", "in-person"}
        location == Lower(loc.s)
        newType ==
            IF raw \in {"virtual", "remote", "webinar"} THEN Str("online")
            ELSE IF raw \in {"live", "physical", "venue", "conference"} THEN Str("in-person")
            ELSE IF raw \notin {"online", "in-person"}
                 THEN (IF HasOnlineWord(location) THEN Str("online")
                       ELSE IF HasVenueWord(location) THEN Str("in-person")
                       ELSE Str("online"))
                 ELSE event.event_type
    IN  IF et.t # "str" \/ (needLoc /\ loc.t # "str")
        THEN [raised |-> TRUE, event |-> event]
        ELSE [raised |-> FALSE,
              event |-> [event EXCEPT !.event_type = newType,
                                      !.speakers = NormalizeSpeakers(Get(event.speakers))]]

\* The body of "for event in events": TRUE when the candidate is appended to
\* future_events.  Every exception of the body skips the candidate.
IsKept(c) ==
    /\ c.dict
    /\ Truthy(Get(c.date))
    /\ strptime(c.date).ok
    /\ IsFuture(strptime(c.date))
    /\ ~_normalize_event_data(c).raised

\* The sort key of future_events puts a before b (reverse for "desc").
EventBefore(a, b, sort_order) ==
    IF sort_order = "desc"
    THEN DateBefore(strptime(b.date), strptime(a.date))
    ELSE DateBefore(strptime(a.date), strptime(b.date))

\* list.sort(key=..., reverse=...) is stable in both directions.
EventInsert(s, e, sort_order) ==
    LET k == Cardinality({i \in 1..Len(s) : ~EventBefore(e, s[i], sort_order)})
    IN  SubSeq(s, 1, k) \o <<e>> \o SubSeq(s, k + 1, Len(s))

RECURSIVE SortEvents(_, _)
SortEvents(es, sort_order) ==
    IF es = <<>> THEN <<>>
    ELSE EventInsert(SortEvents(SubSeq(es, 1, Len(es) - 1), sort_order), es[Len(es)], sort_order)

\* "Ensure consistent field order": the six fields, a missing one as None.
OrderedEvent(e) ==
    [event_name |-> Get(e.event_name), date |-> Get(e.date),
     location |-> Get(e.location), url |-> Get(e.url),
     speakers |-> e.speakers, event_type |-> e.event_type]

NormalizedOf(c) == _normalize_event_data(c).event

\* A model response: the text is not JSON (or is None), is JSON but not an
\* object, is an object without "events", has "events": null, or has an
\* events array.
Response(kind, events) == [kind |-> kind, events |-> events]

\* _parse_and_validate_response(response, speaker_name, event_type, sort_order)
_parse_and_validate_response(resp, event_type, sort_order) ==
    IF resp.kind \in {"not_json", "not_object", "events_null"}
    THEN [raised |-> TRUE, events |-> <<>>]
    ELSE
      LET events   == IF resp.kind = "no_events_key" THEN <<>> ELSE resp.events
          kept     == SelectSeq(events, IsKept)
          future   == [i \in 1..Len(kept) |-> NormalizedOf(kept[i])]
          sorted   == SortEvents(future, sort_order)
          filtered == IF event_type # None
                      THEN SelectSeq(sorted, LAMBDA e : e.event_type = Str(event_type))
                      ELSE sorted
      IN  [raised |-> FALSE,
           events |-> [i \in 1..Len(filtered) |-> OrderedEvent(filtered[i])]]

\* extract_events, given the model's response: any exception of the call or
\* of the parsing gives [].
extract_events(resp, event_type, sort_order) ==
    LET r == _parse_and_validate_response(resp, event_type, sort_order)
    IN  IF resp.kind \in {"no_client", "api_error"} \/ r.raised THEN <<>> ELSE r.events

\* ---- the inputs the extractor is exercised with ----

BaseEvent ==
    Candidate(Str("TechConf"), DateStr(2026, 5, 1), Str("San Francisco"),
              Str("https://techconf.example"), List(<<"Jane Doe">>), Str("in-person"))

DateValues ==
    {Absent, Null, Str(""), Str("TBD"), Num(20260501),
     DateStr(2026, 2, 30), DateStr(2026, 3, 9), DateStr(2026, 3, 10),
     DateStr(2026, 3, 11), DateStr(2025, 12, 31), DateStr(2027, 1, 1),
     DateStrShort(2026, 5, 1)}

SpeakerValues ==
    {Absent, Null, Str("Alice"), Str(""), List(<<>>), List(<<"Alice", "Bob">>),
     Num(0), Num(7), Bool(FALSE), Bool(TRUE), Obj(0, "{}"), Obj(1, "{'name': 'Alice'}")}

TypeValues ==
    {Absent, Null, Str("online"), Str("Online"), Str("VIRTUAL"), Str("conference"),
     Str("hybrid")}

LocationValues ==
    {Absent, Null, Str("Zoom"), Str("Grand Hotel"), Str("Online Hall"), Str("Paris")}

Candidates ==
    {[BaseEvent EXCEPT !.date = v] : v \in DateValues}
    \cup {[BaseEvent EXCEPT !.speakers = v] : v \in SpeakerValues}
    \cup {[BaseEvent EXCEPT !.event_type = v] : v \in TypeValues}
    \cup {[BaseEvent EXCEPT !.event_type = t, !.location = v] :
             t \in {Absent, Str("hybrid")}, v \in LocationValues}
    \cup {[BaseEvent EXCEPT !.event_name = v] : v \in {Absent, Null, Str(" TechConf ")}}
    \cup {NotADict}

Responses ==
    {Response(k, <<>>) : k \in {"not_json", "not_object", "no_events_key", "events_null"}}
    \cup {Response("events", es) : es \in UNION {[1..k -> Candidates] : k \in 0..MaxCandidates}}

InitExtract ==
    /\ xPc = "start"
    /\ xResp \in Responses
    /\ xFilter \in {None, "online", "in-person"}
    /\ xSort \in {"asc", "desc"}
    /\ xOut = [raised |-> FALSE, events |-> <<>>]
    /\ nIn = NotADict
    /\ nOut = [raised |-> FALSE, event |-> NotADict]
    /\ IdleSearch /\ IdleCombine /\ IdleDedupe /\ IdleBatch
    /\ IdleWorkflow /\ IdleSplit /\ IdleFactory

\* _parse_and_validate_response is called on the response.
ParseResponse ==
    /\ xPc = "start"
    /\ xOut' = _parse_and_validate_response(xResp, xFilter, xSort)
    /\ xPc' = "parsed"
    /\ UNCHANGED <<xResp, xFilter, xSort, nIn, nOut, notExtract>>

\* _normalize_event_data is called on one candidate of the response.
NormalizeOne(i) ==
    /\ xPc = "parsed"
    /\ xResp.kind = "events" /\ i \in 1..Len(xResp.events)
    /\ xResp.events[i].dict
    /\ nIn' = xResp.events[i]
    /\ nOut' = _normalize_event_data(xResp.events[i])
    /\ xPc' = "normalized"
    /\ UNCHANGED <<xResp, xFilter, xSort, xOut, notExtract>>

NextExtract ==
    \/ ParseResponse
    \/ \E i \in 1..MaxCandidates : NormalizeOne(i)

SpecExtract == InitExtract /\ [][NextExtract]_vars

\* C5: the extractor's output holds no candidate whose date is missing, does
\* not parse as a calendar date or is before today, and a candidate dated
\* today that is otherwise accepted (normalization succeeds, the type filter
\* passes) is in the output.
ExtractorDropsBadDates ==
    (xPc \in {"parsed", "normalized"} /\ ~xOut.raised) =>
        /\ \A j \in 1..Len(xOut.events) :
              LET e == xOut.events[j]
              IN  /\ e.date.t = "str"
                  /\ strptime(e.date).ok
                  /\ ~DateBefore(strptime(e.date), Today)
                  /\ \E i \in 1..Len(xResp.events) : xResp.events[i].date = e.date
        /\ \A i \in 1..Len(xResp.events) :
              LET c == xResp.events[i]
              IN  (/\ c.dict
                   /\ c.date = DateStr(Today.y, Today.m, Today.d)
                   /\ ~_normalize_event_data(c).raised
                   /\ (xFilter # None => NormalizedOf(c).event_type = Str(xFilter)))
                  => \E j \in 1..Len(xOut.events) :
                        xOut.events[j] = OrderedEvent(NormalizedOf(c))

\* A response with a candidate dated today and a candidate dated yesterday,
\* of which only the first is in the output.
ExtractorDropsBadDatesWitness ==
    /\ xPc = "parsed"
    /\ xResp.kind = "events" /\ Len(xResp.events) = 2
    /\ \E i \in 1..2 : xResp.events[i].date = DateStr(2026, 3, 9)
    /\ Len(xOut.events) = 1
    /\ xOut.events[1].date = DateStr(2026, 3, 10)

\* C6 as stated: speakers is a list afterwards; a string s gives [s], a list
\* is kept, an absent value gives [], every other present non-list value v
\* gives [str(v)].
SpeakersNormalizedAsClaimed ==
    (xPc = "normalized" /\ ~nOut.raised) =>
        LET v == nIn.speakers
            w == nOut.event.speakers
        IN  /\ w.t = "list"
            /\ v.t = "str" => w = List(<<v.s>>)
            /\ v.t = "list" => w = v
            /\ v.t \in {"absent", "null"} => w = List(<<>>)
            /\ v.t \in {"num", "bool", "obj"} => w = List(<<PyStr(v)>>)

\* C6 as amended: speakers is a list afterwards; a string s gives [s], a list
\* is kept, any other truthy value v gives [str(v)], and an absent, null or
\* otherwise falsy non-list value (0, false, {}) gives [].
SpeakersNormalized ==
    (xPc = "normalized" /\ ~nOut.raised) =>
        LET v == nIn.speakers
            w == nOut.event.speakers
        IN  /\ w.t = "list"
            /\ v.t = "str" => w = List(<<v.s>>)
            /\ v.t = "list" => w = v
            /\ v.t \in {"absent", "null"} => w = List(<<>>)
            /\ (v.t \in {"num", "bool", "obj"} /\ Truthy(v)) => w = List(<<PyStr(v)>>)
            /\ (v.t \in {"num", "bool", "obj"} /\ ~Truthy(v)) => w = List(<<>>)

\* Normalization has turned speakers: 0 into the empty list.
SpeakersNormalizedWitness ==
    /\ xPc = "normalized" /\ ~nOut.raised
    /\ nIn.speakers = Num(0)
    /\ nOut.event.speakers = List(<<>>)

\* C15: every event in the extractor's output has a non-empty speakers list,
\* also when the candidate has no speakers field or an empty or null one.
OutputSpeakersNonEmpty ==
    (xPc \in {"parsed", "normalized"} /\ ~xOut.raised) =>
        \A j \in 1..Len(xOut.events) :
            /\ xOut.events[j].speakers.t = "list"
            /\ Len(xOut.events[j].speakers.l) >= 1

\* The event types a normalized event may carry.
EventTypes == {Str("online"), Str("in-person")}

\* C16: every event returned by the extractor has event_type exactly
\* 'online' or 'in-person', for every raw event_type string in any letter
\* case: virtual/remote/webinar give online, live/physical/venue/conference
\* give in-person, online and in-person stay, any other value is decided by
\* the location keywords, and online is the default.
EventTypeNormalized ==
    /\ (xPc \in {"parsed", "normalized"} /\ ~xOut.raised) =>
          \A j \in 1..Len(xOut.events) : xOut.events[j].event_type \in EventTypes
    /\ (xPc = "normalized" /\ ~nOut.raised /\ nIn.event_type.t = "str") =>
          LET raw == Lower(nIn.event_type.s)
              loc == Lower(GetOr(nIn.location, Str("")).s)
              w   == nOut.event.event_type
          IN  /\ w \in EventTypes
              /\ raw \in {"virtual", "remote", "webinar", "online"} => w = Str("online")
              /\ raw \in {"live", "physical", "venue", "conference", "in-person"}
                    => w = Str("in-person")
              /\ raw \notin {"virtual", "remote", "webinar", "online", "live",
                             "physical", "venue", "conference", "in-person"}
                    => w = IF HasOnlineWord(loc) THEN Str("online")
                           ELSE IF HasVenueWord(loc) THEN Str("in-person")
                           ELSE Str("online")

\* The candidate's date parses as a calendar date on or after today.
HasGoodDate(c) ==
    /\ c.date.t = "str"
    /\ strptime(c.date).ok
    /\ ~DateBefore(strptime(c.date), Today)

\* C17: a bad or past date is the only reason for dropping a candidate: with
\* no event-type filter, every object of the events array whose date parses
\* and is on or after today is in the extractor's output with its name, date,
\* location and url, whatever its other fields are.
OnlyBadDatesDropped ==
    (xPc \in {"parsed", "normalized"} /\ ~xOut.raised /\ xFilter = None) =>
        \A i \in 1..Len(xResp.events) :
            LET c == xResp.events[i]
            IN  (c.dict /\ HasGoodDate(c)) =>
                    \E j \in 1..Len(xOut.events) :
                        /\ xOut.events[j].event_name = Get(c.event_name)
                        /\ xOut.events[j].date = c.date
                        /\ xOut.events[j].location = Get(c.location)
                        /\ xOut.events[j].url = Get(c.url)

\* ========================================================================
\* Deduplicator / merger (utils/dedupe.py)
\* ========================================================================

\* most events in one call of dedupe_events
MaxEvents == 3

\* str.strip() on the texts of the model.
Strip(s) ==
    CASE s = " TechConf " -> "TechConf"
      [] s = "  "         -> ""
      [] OTHER            -> s

\* _norm(s) = (s or "").strip().lower(); a date string has neither blanks
\* nor letters.
_norm(v) ==
    IF ~Truthy(v) THEN Str("")
    ELSE IF v.s \in {"Y-M-D", "Y-m-d"} THEN v
    ELSE Str(Lower(Strip(v.s)))

\* _norm raises for a truthy value that is not a string.
NormRaises(v) == Truthy(v) /\ v.t # "str"

\* _key(e)
_key(e) == <<_norm(e.event_name), _norm(e.date), _norm(e.location)>>

KeyRaises(e) == NormRaises(e.event_name) \/ NormRaises(e.date) \/ NormRaises(e.location)

\* The speaker names of the model in sorted() order.
NameOrder == <<"Alice", "Bob", "Jane Doe">>

\* sorted(list(S)) for a set S of speaker names.
SortedNames(S) == SelectSeq(NameOrder, LAMBDA n : n \in S)

\* "speakers" or []
SpeakerSet(v) == IF Truthy(v) THEN Range(v.l) ELSE {}

\* KeepFirst: the duplicate's speakers are not merged in.
MergeSpeakers_KeepFirst(existing, e) ==
    List(SortedNames(SpeakerSet(existing.speakers)))

\* sp = set(existing.get("speakers") or []) | set(e.get("speakers") or []);
\* existing["speakers"] = sorted(list(sp))
MergeSpeakers(existing, e) ==
    List(SortedNames(SpeakerSet(existing.speakers) \cup SpeakerSet(e.speakers)))

\* The else branch of dedupe_events: the kept record after merging e into it.
Merge(existing, e) ==
    [existing EXCEPT
        !.speakers = MergeSpeakers(existing, e),
        !.url = IF ~Truthy(existing.url) /\ Truthy(e.url) THEN e.url ELSE @,
        !.location = IF ~Truthy(existing.location) /\ Truthy(e.location) THEN e.location ELSE @]

\* Index of key k in the sequence of keys seen so far, 0 if not seen.
KeyIndex(keys, k) ==
    IF \E i \in 1..Len(keys) : keys[i] = k
    THEN CHOOSE i \in 1..Len(keys) : keys[i] = k
    ELSE 0

\* The loop "for e in events" from index i on; seen is the dict, as its keys
\* and values in insertion order, with the input index of each kept record.
RECURSIVE DedupeLoop(_, _, _)
DedupeLoop(events, i, seen) ==
    IF i > Len(events) \/ seen.raised THEN seen
    ELSE
      LET e == events[i]
          k == _key(e)
          j == KeyIndex(seen.keys, k)
      IN  IF KeyRaises(e) THEN [seen EXCEPT !.raised = TRUE]
          ELSE IF j = 0
          THEN DedupeLoop(events, i + 1,
                  [seen EXCEPT !.keys = Append(@, k), !.vals = Append(@, e),
                               !.first = Append(@, i)])
          ELSE DedupeLoop(events, i + 1,
                  [seen EXCEPT !.vals[j] = Merge(@, e)])

Seen(events) ==
    DedupeLoop(events, 1, [raised |-> FALSE, keys |-> <<>>, vals |-> <<>>, first |-> <<>>])

\* Reversed: the kept records are returned last key first.
SeenValues_Reversed(seen) == [i \in 1..Len(seen.vals) |-> seen.vals[Len(seen.vals) + 1 - i]]

\* list(seen.values()): the kept records in the order their keys were first seen.
SeenValues(seen) == seen.vals

\* dedupe_events(events)
dedupe_events(events) ==
    LET seen == Seen(events)
    IN  [raised |-> seen.raised,
         events |-> IF seen.raised THEN <<>> ELSE SeenValues(seen)]

Event(name, date, location, url, speakers) ==
    [event_name |-> name, date |-> date, location |-> location, url |-> url,
     speakers |-> List(speakers), event_type |-> Str("in-person")]

\* The events the deduplicator is exercised with.
EventUniverse ==
    { Event(Str("TechConf"), DateStr(2026, 5, 1), Str("San Francisco"),
            Str("https://techconf.example"), <<"Jane Doe", "Alice">>),
      Event(Str(" TechConf "), DateStr(2026, 5, 1), Str("san francisco"),
            Null, <<"Jane Doe", "Bob">>),
      Event(Str("TechConf"), DateStr(2026, 5, 1), Null,
            Str("https://agg.example/techconf"), <<"Jane Doe">>),
      Event(Str("TechConf"), DateStr(2026, 5, 1), Str("  "), Null, <<"Alice">>),
      Event(Str("TechConf"), DateStr(2026, 6, 2), Str("San Francisco"),
            Null, <<"Jane Doe">>),
      Event(Str("DevDay"), DateStr(2026, 4, 1), Str("Zoom"),
            Str("https://devday.example"), <<>>),
      Event(Null, DateStr(2026, 4, 1), Str("Zoom"), Null, <<"Bob">>) }

InitDedupe ==
    /\ dPc = "start"
    /\ dIn \in UNION {[1..k -> EventUniverse] : k \in 0..MaxEvents}
    /\ dOut = [raised |-> FALSE, events |-> <<>>]
    /\ dOut2 = [raised |-> FALSE, events |-> <<>>]
    /\ dArg = dIn
    /\ IdleSearch /\ IdleCombine /\ IdleExtract /\ IdleBatch
    /\ IdleWorkflow /\ IdleSplit /\ IdleFactory

\* The argument after the call: seen[k] = e stores the caller's record
\* itself, so the assignments to existing[...] change the first record of
\* each key in the caller's list.
ArgumentAfter(events) ==
    LET seen == Seen(events)
    IN  [i \in 1..Len(events) |->
            IF \E j \in 1..Len(seen.first) : seen.first[j] = i
            THEN seen.vals[CHOOSE j \in 1..Len(seen.first) : seen.first[j] = i]
            ELSE events[i]]

\* dedupe_events is called on the list.
Dedupe ==
    /\ dPc = "start"
    /\ dOut' = dedupe_events(dIn)
    /\ dArg' = ArgumentAfter(dIn)
    /\ dPc' = "deduped"
    /\ UNCHANGED <<dIn, dOut2, notDedupe>>

\* dedupe_events is called on its own result.
DedupeAgain ==
    /\ dPc = "deduped"
    /\ ~dOut.raised
    /\ dOut2' = dedupe_events(dOut.events)
    /\ dPc' = "deduped_twice"
    /\ UNCHANGED <<dIn, dOut, dArg, notDedupe>>

NextDedupe == Dedupe \/ DedupeAgain

SpecDedupe == InitDedupe /\ [][NextDedupe]_vars

\* C7: dedupe_events(dedupe_events(x)) equals dedupe_events(x): the same
\* records with the same field values in the same order.
DedupeIdempotent ==
    dPc = "deduped_twice" => dOut2 = dOut

\* A second call on a result in which duplicates had been merged.
DedupeIdempotentWitness ==
    /\ dPc = "deduped_twice"
    /\ Len(dOut.events) >= 2
    /\ Len(dOut.events) < Len(dIn)
    /\ dOut2 = dOut

\* The DedupeKeys of a list of events.
KeysOf(events) == {_key(events[i]) : i \in 1..Len(events)}

\* C8: the output of dedupe_events has exactly one record for every DedupeKey
\* of its input and no other, and the speakers of that record are the union
\* of the speakers of all input events with that key.
DedupeMergesByKey ==
    (dPc \in {"deduped", "deduped_twice"} /\ ~dOut.raised) =>
        /\ KeysOf(dOut.events) = KeysOf(dIn)
        /\ \A k \in KeysOf(dIn) :
              /\ Cardinality({j \in 1..Len(dOut.events) : _key(dOut.events[j]) = k}) = 1
              /\ \A j \in 1..Len(dOut.events) :
                    _key(dOut.events[j]) = k =>
                       Range(dOut.events[j].speakers.l) =
                          UNION {Range(dIn[i].speakers.l) :
                                    i \in {n \in 1..Len(dIn) : _key(dIn[n]) = k}}

\* Two sources report the same event with overlapping but different speaker
\* lists: one record with the merged speakers comes out.
DedupeMergesByKeyWitness ==
    /\ dPc = "deduped"
    /\ Len(dIn) = 2 /\ Len(dOut.events) = 1
    /\ dIn[1].speakers = List(<<"Jane Doe", "Alice">>)
    /\ dIn[2].speakers = List(<<"Jane Doe", "Bob">>)
    /\ dOut.events[1].speakers = List(<<"Alice", "Bob", "Jane Doe">>)

\* C18: dedupe_events is pure: after the call the caller's list and every
\* event record in it have the field values they had before the call, also
\* when duplicates were merged.
DedupeLeavesArgument ==
    dPc \in {"deduped", "deduped_twice"} => dArg = dIn

\* ========================================================================
\* Batch extraction orchestrator
\* ========================================================================

\* number of batches _create_source_batches made of the search results
NumBatches == 3
\* "max_workers=min(3, len(batches))"
BATCH_POOL_LIMIT == 3
\* settings.MAX_CONTENT_CHARS
MAX_CONTENT_CHARS == 384000

Batches == 1..NumBatches

\* batch_char_limit of process_single_batch
batch_char_limit ==
    IF NumBatches > 1 THEN MAX_CONTENT_CHARS \div NumBatches ELSE MAX_CONTENT_CHARS

\* The sources of a batch: usable ones, or one whose markdown is None.
BatchSources ==
    { <<CHOOSE r \in ResultUniverse : r.markdown.text = "bioA">>,
      <<CHOOSE r \in ResultUniverse : r.markdown.none>> }

\* What the model answers for a batch (or that the call fails).
BatchResponses ==
    { Response("api_error", <<>>),
      Response("not_json", <<>>),
      Response("events", <<[BaseEvent EXCEPT !.date = DateStr(2026, 6, 2)], BaseEvent>>),
      Response("events", <<[BaseEvent EXCEPT !.location = Str("Paris")]>>),
      Response("events", <<[BaseEvent EXCEPT !.event_name = Absent]>>) }

\* process_single_batch: what the future of the batch holds; raised when
\* smart_combine_markdown raises, otherwise the list extract_events returns.
process_single_batch(sources, resp, event_type, sort_order) ==
    IF smart_combine_markdown(sources, batch_char_limit).raised
    THEN [raised |-> TRUE, events |-> <<>>]
    ELSE [raised |-> FALSE, events |-> extract_events(resp, event_type, sort_order)]

\* The key of _deduplicate_and_sort_events:
\* (event_name.lower().strip(), date, tuple(sorted(speakers)))
SeenKey(e) ==
    <<Str(Strip(Lower(e.event_name.s))), e.date, SortedNames(Range(e.speakers.l))>>

\* event.get("event_name", "").lower(): the key is always there after the
\* field ordering, so None (or any non-string) has no lower().
SeenKeyRaises(e) == e.event_name.t # "str"

\* The loop of _deduplicate_and_sort_events from index i on.
RECURSIVE UniqueLoop(_, _, _, _)
UniqueLoop(events, i, seen_events, unique_events) ==
    IF i > Len(events) THEN unique_events
    ELSE IF SeenKey(events[i]) \in seen_events
         THEN UniqueLoop(events, i + 1, seen_events, unique_events)
         ELSE UniqueLoop(events, i + 1, seen_events \cup {SeenKey(events[i])},
                         Append(unique_events, events[i]))

\* NoSort: the unique events are returned in aggregation order.
_deduplicate_and_sort_events_NoSort(events, sort_order) ==
    IF \E i \in 1..Len(events) : SeenKeyRaises(events[i])
    THEN [raised |-> TRUE, events |-> <<>>]
    ELSE [raised |-> FALSE, events |-> UniqueLoop(events, 1, {}, <<>>)]

\* _deduplicate_and_sort_events(all_events, sort_order)
_deduplicate_and_sort_events(events, sort_order) ==
    IF \E i \in 1..Len(events) : SeenKeyRaises(events[i])
    THEN [raised |-> TRUE, events |-> <<>>]
    ELSE [raised |-> FALSE,
          events |-> SortEvents(UniqueLoop(events, 1, {}, <<>>), sort_order)]

BatchPoolSize == Min(BATCH_POOL_LIMIT, NumBatches)

NoBatch == [sources |-> <<>>, resp |-> Response("none", <<>>)]

InitBatch ==
    /\ bPc = "collect"
    /\ bFut = [b \in Batches |-> "pending"]
    /\ bKind = [b \in Batches |-> NoBatch]
    /\ bEvents = [b \in Batches |-> [raised |-> FALSE, events |-> <<>>]]
    /\ all_events = <<>>
    /\ bOut = <<>>
    /\ IdleSearch /\ IdleCombine /\ IdleDedupe /\ IdleSplit /\ IdleFactory
    /\ wPc = "extract" /\ wCalls = 0 /\ wOut = <<>>
    /\ xPc = "idle" /\ xResp = Response("none", <<>>)
    /\ xFilter = None /\ xSort \in {"asc", "desc"}
    /\ xOut = [raised |-> FALSE, events |-> <<>>]
    /\ nIn = None /\ nOut = [raised |-> FALSE, event |-> None]

\* A pool thread takes the next submitted batch.
BatchStart(b) ==
    /\ bFut[b] = "pending"
    /\ \A p \in Batches : p < b => bFut[p] # "pending"
    /\ Cardinality({p \in Batches : bFut[p] = "running"}) < BatchPoolSize
    /\ bFut' = [bFut EXCEPT ![b] = "running"]
    /\ UNCHANGED <<bPc, bKind, bEvents, all_events, bOut, notBatch>>

\* process_single_batch ends for a batch with the given sources and answer;
\* extract_events calls the model once when the content was combined.
BatchFinish(b, sources, resp) ==
    /\ bFut[b] = "running"
    /\ bFut' = [bFut EXCEPT ![b] = "done"]
    /\ bKind' = [bKind EXCEPT ![b] = [sources |-> sources, resp |-> resp]]
    /\ bEvents' = [bEvents EXCEPT ![b] = process_single_batch(sources, resp, xFilter, xSort)]
    /\ wCalls' = IF smart_combine_markdown(sources, batch_char_limit).raised
                 THEN wCalls ELSE wCalls + 1
    /\ UNCHANGED <<bPc, all_events, bOut, wPc, wOut, searchVars, combineVars,
                   extractVars, dedupeVars, splitVars, factoryVars>>

\* NoCatch: the exception of future.result() leaves the function.
CollectBatch_NoCatch(b) ==
    /\ bPc = "collect"
    /\ bFut[b] = "done"
    /\ bFut' = [bFut EXCEPT ![b] = "collected"]
    /\ IF bEvents[b].raised
       THEN bPc' = "raised" /\ UNCHANGED all_events
       ELSE bPc' = bPc /\ all_events' = all_events \o bEvents[b].events
    /\ UNCHANGED <<bKind, bEvents, bOut, notBatch>>

\* One iteration of "for future in as_completed(future_to_batch)":
\* all_events.extend(batch_events), or the failure is logged.
CollectBatch(b) ==
    /\ bPc = "collect"
    /\ bFut[b] = "done"
    /\ bFut' = [bFut EXCEPT ![b] = "collected"]
    /\ all_events' = IF bEvents[b].raised THEN all_events
                     ELSE all_events \o bEvents[b].events
    /\ UNCHANGED <<bPc, bKind, bEvents, bOut, notBatch>>

\* Every future has been handed out; the pool is shut down.
BatchesCollected ==
    /\ bPc = "collect"
    /\ \A b \in Batches : bFut[b] = "collected"
    /\ bPc' = "aggregate"
    /\ UNCHANGED <<bFut, bKind, bEvents, all_events, bOut, notBatch>>

\* unique_events = _deduplicate_and_sort_events(all_events, sort_order);
\* an exception of it leaves extract_events_in_batches.
BatchReturn ==
    /\ bPc = "aggregate"
    /\ LET r == _deduplicate_and_sort_events(all_events, xSort)
       IN  /\ bPc' = IF r.raised THEN "raised" ELSE "returned"
           /\ bOut' = r.events
    /\ UNCHANGED <<bFut, bKind, bEvents, all_events, notBatch>>

\* Step 3 of _execute_search_workflow: events = dedupe_events(events), and
\* the list is returned; an exception of dedupe_events reaches get_events.
WorkflowDedupe ==
    /\ wPc = "extract"
    /\ bPc = "returned"
    /\ LET d == dedupe_events(bOut)
       IN  /\ wPc' = IF d.raised THEN "error" ELSE "returned"
           /\ wOut' = d.events
    /\ UNCHANGED <<wCalls, searchVars, combineVars, extractVars, dedupeVars,
                   batchVars, splitVars, factoryVars>>

\* An exception of extract_events_in_batches leaves _execute_search_workflow;
\* get_events answers 500 internal_error.
WorkflowFails ==
    /\ wPc = "extract"
    /\ bPc = "raised"
    /\ wPc' = "error"
    /\ UNCHANGED <<wCalls, wOut, searchVars, combineVars, extractVars,
                   dedupeVars, batchVars, splitVars, factoryVars>>

NextBatch ==
    \/ \E b \in Batches : BatchStart(b)
    \/ \E b \in Batches, s \in BatchSources, r \in BatchResponses : BatchFinish(b, s, r)
    \/ \E b \in Batches : CollectBatch(b)
    \/ BatchesCollected
    \/ BatchReturn
    \/ WorkflowDedupe
    \/ WorkflowFails

SpecBatch == InitBatch /\ [][NextBatch]_vars

\* Number of occurrences of e in the list s.
Count(s, e) == Cardinality({i \in 1..Len(s) : s[i] = e})

RECURSIVE SumOver(_, _)
SumOver(S, e) ==
    IF S = {} THEN 0
    ELSE LET b == CHOOSE x \in S : TRUE
         IN  Count(bEvents[b].events, e) + SumOver(S \ {b}, e)

\* The batches whose processing raised: in the content combination, in the
\* model call or in the parsing of the answer.
FailedBatches ==
    {b \in Batches :
        /\ bFut[b] \in {"done", "collected"}
        /\ \/ smart_combine_markdown(bKind[b].sources, batch_char_limit).raised
           \/ bKind[b].resp.kind = "api_error"
           \/ _parse_and_validate_response(bKind[b].resp, xFilter, xSort).raised}

\* C9: a batch whose processing raises contributes no event and does not
\* abort the collection: once the collection loop is over, every batch has
\* been collected and all_events holds exactly the events returned by the
\* batches that succeeded, whichever batches failed and in whatever order
\* they completed.
FailingBatchIsolated ==
    /\ \A b \in FailedBatches : bEvents[b].events = <<>>
    /\ bPc \in {"aggregate", "returned", "raised"} =>
          /\ \A b \in Batches : bFut[b] = "collected"
          /\ \A b \in Batches \ FailedBatches :
                \A i \in 1..Len(bEvents[b].events) :
                   Count(all_events, bEvents[b].events[i])
                      = SumOver(Batches \ FailedBatches, bEvents[b].events[i])
          /\ \A i \in 1..Len(all_events) :
                \E b \in Batches \ FailedBatches :
                   Count(bEvents[b].events, all_events[i]) > 0

\* Scenario D: batch 2 of 3 raised in the content combination, batches 1 and
\* 3 returned events, and all of these are aggregated.
FailingBatchIsolatedWitness ==
    /\ bPc = "returned"
    /\ bEvents[2].raised
    /\ Len(bEvents[1].events) = 2 /\ Len(bEvents[3].events) = 1
    /\ Len(all_events) = 3

\* C10: whatever the model answers, extract_events_in_batches returns a list
\* and does not raise.
BatchesNeverRaise ==
    bPc # "raised"

\* The day of an event as a number that grows with the calendar.
DateNum(e) == strptime(e.date).y * 10000 + strptime(e.date).m * 100 + strptime(e.date).d

\* The list is ordered by date in the direction of sort_order.
DateOrdered(es, sort_order) ==
    \A i, j \in 1..Len(es) :
        i < j => IF sort_order = "desc"
                 THEN DateNum(es[i]) >= DateNum(es[j])
                 ELSE DateNum(es[i]) <= DateNum(es[j])

\* C12: the list the workflow returns after extract_events_in_batches and
\* dedupe_events is ordered by event date, non-decreasing for sort=asc and
\* non-increasing for sort=desc, whatever the batches returned and in
\* whatever order they completed.
FinalListDateOrdered ==
    wPc = "returned" => DateOrdered(wOut, xSort)

\* A descending request whose aggregated events were not in descending order
\* before the final sort, and whose final list has events of different days.
FinalListDateOrderedWitness ==
    /\ wPc = "returned"
    /\ xSort = "desc"
    /\ ~DateOrdered(all_events, xSort)
    /\ \E i, j \in 1..Len(wOut) : DateNum(wOut[i]) # DateNum(wOut[j])

\* C13: the deduplication inside extract_events_in_batches groups by
\* DedupeKey (normalized name, date, location): every DedupeKey among the
\* aggregated events is still there in the list it returns, so two events
\* that differ only in their location are both present.
StageOneGroupsByDedupeKey ==
    bPc = "returned" =>
        \A i \in 1..Len(all_events) :
            \E j \in 1..Len(bOut) : _key(bOut[j]) = _key(all_events[i])

\* The events of batches 1..b in submission order, a failed batch giving none.
RECURSIVE EventsInSubmissionOrder(_)
EventsInSubmissionOrder(b) ==
    IF b = 0 THEN <<>>
    ELSE EventsInSubmissionOrder(b - 1) \o bEvents[b].events

\* What the workflow returns when the batches complete in submission order.
FinalListInSubmissionOrder ==
    dedupe_events(
        _deduplicate_and_sort_events(EventsInSubmissionOrder(NumBatches), xSort).events
    ).events

\* C14: for fixed per-batch extraction results the final event list (its
\* members, their field values and their order) is the same for every order
\* in which the batch workers complete: it is the list obtained when they
\* complete in submission order.
FinalListIgnoresCompletionOrder ==
    wPc = "returned" => wOut = FinalListInSubmissionOrder

\* ========================================================================
\* Request workflow: search -> extract -> dedupe
\* ========================================================================

\* settings.LLM_BATCH_SIZE
LLM_BATCH_SIZE == 3
\* settings.MAX_SOURCES_PER_BATCH
MAX_SOURCES_PER_BATCH == 10

\* NoCap: a slice longer than max_sources is kept whole.
_create_source_batches_NoCap(search_results, batch_size, max_sources) ==
    LET n  == Len(search_results)
        nb == (n + batch_size - 1) \div batch_size
    IN  [k \in 1..nb |->
            SubSeq(search_results, (k - 1) * batch_size + 1, Min(k * batch_size, n))]

\* _create_source_batches with the two settings it reads: one batch per
\* i in range(0, len(search_results), batch_size), the slice [i:i+batch_size]
\* cut to its first max_sources items when it is longer.
_create_source_batches(search_results, batch_size, max_sources) ==
    LET n  == Len(search_results)
        nb == (n + batch_size - 1) \div batch_size
    IN  [k \in 1..nb |->
            LET batch == SubSeq(search_results, (k - 1) * batch_size + 1,
                                Min(k * batch_size, n))
            IN  IF Len(batch) > max_sources
                THEN SubSeq(batch, 1, max_sources)
                ELSE batch]

\* batch_char_limit of process_single_batch when there are n batches
batch_char_limit_for(n) ==
    IF n > 1 THEN MAX_CONTENT_CHARS \div n ELSE MAX_CONTENT_CHARS

\* The list s repeated n times.
RECURSIVE Repeat(_, _)
Repeat(s, n) == IF n = 0 THEN <<>> ELSE s \o Repeat(s, n - 1)

\* extract_events_in_batches(search_results) when the model answers resp for
\* every batch: the list returned (or that it raised) and the number of model
\* calls made, one per batch whose content could be combined.
extract_events_in_batches(search_results, resp, event_type, sort_order) ==
    IF search_results = <<>>
    THEN [raised |-> FALSE, events |-> <<>>, calls |-> 0]
    ELSE
      LET batches == _create_source_batches(search_results, LLM_BATCH_SIZE,
                                            MAX_SOURCES_PER_BATCH)
          limit   == batch_char_limit_for(Len(batches))
          called  == {k \in 1..Len(batches) :
                         ~smart_combine_markdown(batches[k], limit).raised}
          all     == Repeat(extract_events(resp, event_type, sort_order),
                            Cardinality(called))
          unique  == _deduplicate_and_sort_events(all, sort_order)
      IN  [raised |-> unique.raised, events |-> unique.events,
           calls |-> Cardinality(called)]

\* The model's answers of the request: two events, or one without a name.
WorkflowAnswers ==
    { Response("events", <<[BaseEvent EXCEPT !.date = DateStr(2026, 6, 2)], BaseEvent>>),
      Response("events", <<[BaseEvent EXCEPT !.event_name = Absent]>>) }

\* The request starts with the search fan-out; sort is left at its default.
InitWorkflow ==
    /\ sPc = "collect"
    /\ fut = [q \in Queries |-> "pending"]
    /\ provOut = [q \in Queries |-> NoOutcome]
    /\ futData = [q \in Queries |-> <<>>]
    /\ yielded = {}
    /\ results = <<>>
    /\ sTimedOut = FALSE
    /\ wPc = "search" /\ wCalls = 0 /\ wOut = <<>>
    /\ IdleCombine /\ IdleDedupe /\ IdleBatch /\ IdleSplit /\ IdleFactory
    /\ xPc = "idle" /\ xResp = Response("none", <<>>)
    /\ xFilter = None /\ xSort = "asc"
    /\ xOut = [raised |-> FALSE, events |-> <<>>]
    /\ nIn = None /\ nOut = [raised |-> FALSE, event |-> None]

\* EmptyIsError: a search without results ends the request with an error.
WorkflowSearchDone_EmptyIsError ==
    /\ wPc = "search"
    /\ sPc = "returned"
    /\ wPc' = IF results = <<>> THEN "error" ELSE "extract"
    /\ UNCHANGED <<wCalls, wOut, searchVars, combineVars, extractVars,
                   dedupeVars, batchVars, splitVars, factoryVars>>

\* Step 1 of _execute_search_workflow has returned raw_results:
\* "if not raw_results: return []".
WorkflowSearchDone ==
    /\ wPc = "search"
    /\ sPc = "returned"
    /\ wPc' = IF results = <<>> THEN "returned" ELSE "extract"
    /\ UNCHANGED <<wCalls, wOut, searchVars, combineVars, extractVars,
                   dedupeVars, batchVars, splitVars, factoryVars>>

\* Step 2: events = extract_events_in_batches(raw_results); every result
\* item carries the page content of source, every batch is answered resp.
WorkflowExtract(source, resp) ==
    /\ wPc = "extract"
    /\ bPc = "idle"
    /\ LET x == extract_events_in_batches([i \in 1..Len(results) |-> source[1]],
                                          resp, xFilter, xSort)
       IN  /\ bPc' = IF x.raised THEN "raised" ELSE "returned"
           /\ bOut' = x.events
           /\ wCalls' = x.calls
    /\ UNCHANGED <<wPc, wOut, bFut, bKind, bEvents, all_events, searchVars,
                   combineVars, extractVars, dedupeVars, splitVars, factoryVars>>

NextWorkflow ==
    \/ \E q \in Queries : WorkerStart(q)
    \/ \E q \in Queries, o \in ProviderOutcomes : WorkerFinish(q, o)
    \/ \E q \in Queries : CollectOne(q)
    \/ CollectDone
    \/ SearchTimeout
    \/ SearchReturn
    \/ WorkflowSearchDone
    \/ \E s \in BatchSources, r \in WorkflowAnswers : WorkflowExtract(s, r)
    \/ WorkflowDedupe
    \/ WorkflowFails

SpecWorkflow == InitWorkflow /\ [][NextWorkflow]_vars

\* No provider call handed back a result item.
NoResultsAnywhere ==
    \A q \in Queries : provOut[q].kind # "pending" /\ ResultCount(provOut[q]) = 0

\* C11: when the provider returns zero results for every query, the workflow
\* leaves the search step by returning the empty list: it ends as a success
\* with no events, it never enters the extraction step, and no model call is
\* made.
EmptySearchIsEmptySuccess ==
    (NoResultsAnywhere /\ wPc # "search") =>
        /\ wPc = "returned"
        /\ wOut = <<>>
        /\ wCalls = 0
        /\ bPc = "idle"

\* Scenario C: every query got the provider's "no results" signal or an
\* empty data list, and the request has returned.
EmptySearchIsEmptySuccessWitness ==
    /\ wPc = "returned"
    /\ \A q \in Queries : provOut[q].kind \in {"no_results", "items"}
    /\ \E q \in Queries : provOut[q].kind = "no_results"
    /\ \E q \in Queries : provOut[q].kind = "items"
    /\ NoResultsAnywhere
    /\ wOut = <<>>

\* ========================================================================
\* Source batching
\* ========================================================================

\* most search results handed to _create_source_batches
MaxSources == 6
\* largest settings.LLM_BATCH_SIZE tried
MaxBatchSize == 4
\* largest settings.MAX_SOURCES_PER_BATCH tried
MaxCap == 4

\* The search results are told apart by their position in the input.
InitSplit ==
    /\ tPc = "start"
    /\ tIn \in {[i \in 1..n |-> i] : n \in 0..MaxSources}
    /\ tSize \in 1..MaxBatchSize
    /\ tCap \in 1..MaxCap
    /\ tOut = <<>>
    /\ IdleSearch /\ IdleCombine /\ IdleExtract /\ IdleDedupe /\ IdleBatch
    /\ IdleWorkflow /\ IdleFactory

\* batches = _create_source_batches(search_results) under the two settings.
CreateBatches ==
    /\ tPc = "start"
    /\ tOut' = _create_source_batches(tIn, tSize, tCap)
    /\ tPc' = "done"
    /\ UNCHANGED <<tIn, tSize, tCap, searchVars, combineVars, extractVars,
                   dedupeVars, batchVars, workflowVars, factoryVars>>

NextSplit == CreateBatches

SpecSplit == InitSplit /\ [][NextSplit]_vars

\* The places (batch, position) at which result r occurs in the batches.
PlacesOf(r) ==
    {<<k, p>> \in (1..Len(tOut)) \X (1..MaxSources + 1) :
        p <= Len(tOut[k]) /\ tOut[k][p] = r}

\* C20: n results are split into ceil(n / batchSize) non-empty batches, each
\* a consecutive slice of the input that starts where its batchSize-slice
\* starts and has at most min(batchSize, maxSourcesPerBatch) results; with
\* batchSize <= maxSourcesPerBatch every result is in exactly one batch, and
\* otherwise the results beyond the cap in a slice are in no batch while the
\* others are in exactly one.
BatchesAreCappedSlices ==
    tPc = "done" =>
        LET n == Len(tIn)
        IN  /\ Len(tOut) * tSize >= n
            /\ (Len(tOut) - 1) * tSize < n
            /\ \A k \in 1..Len(tOut) :
                  /\ Len(tOut[k]) >= 1
                  /\ Len(tOut[k]) <= Min(tSize, tCap)
                  /\ tOut[k] = SubSeq(tIn, (k - 1) * tSize + 1,
                                      (k - 1) * tSize + Len(tOut[k]))
            /\ \A i \in 1..n :
                  IF (i - 1) % tSize < tCap
                  THEN Cardinality(PlacesOf(tIn[i])) = 1
                  ELSE PlacesOf(tIn[i]) = {}
            /\ tSize <= tCap =>
                  \A i \in 1..n : Cardinality(PlacesOf(tIn[i])) = 1

\* Five results with batch size 3 and cap 2: the batches are [1, 2] and
\* [4, 5], and result 3 is in neither.
BatchesAreCappedSlicesWitness ==
    /\ tPc = "done"
    /\ Len(tIn) = 5 /\ tSize = 3 /\ tCap = 2
    /\ tOut = << <<1, 2>>, <<4, 5>> >>
    /\ PlacesOf(3) = {}

\* ========================================================================
\* Client factory
\* ========================================================================

\* worker threads that make their first factory call at about the same time
NumCallers == 3

Callers == 1..NumCallers

\* ClientFactory.firecrawl and ClientFactory.openai
Kinds == {"firecrawl", "openai"}

\* The value None of a class attribute; a client is told apart by the number
\* of its construction.
NoClient == 0

\* No thread has called the factory: both class attributes are None; an API
\* key is set or not.
InitFactory ==
    /\ handle = [k \in Kinds |-> NoClient]
    /\ apiKey \in [Kinds -> BOOLEAN]
    /\ built = [k \in Kinds |-> 0]
    /\ fPc = [w \in Callers |-> "idle"]
    /\ fKind = [w \in Callers |-> "firecrawl"]
    /\ fNew = [w \in Callers |-> NoClient]
    /\ fRet = [w \in Callers |-> NoClient]
    /\ IdleSearch /\ IdleCombine /\ IdleExtract /\ IdleDedupe /\ IdleBatch
    /\ IdleWorkflow /\ IdleSplit

\* A worker calls the factory: search_firecrawl calls ClientFactory.firecrawl(),
\* extract_events calls ClientFactory.openai().
FactoryCall(w, k) ==
    /\ fPc[w] = "idle"
    /\ fKind' = [fKind EXCEPT ![w] = k]
    /\ fPc' = [fPc EXCEPT ![w] = "test"]
    /\ UNCHANGED <<handle, apiKey, built, fNew, fRet, searchVars, combineVars,
                   extractVars, dedupeVars, batchVars, workflowVars, splitVars>>

\* "if cls._x is None and settings.X_API_KEY": the attribute is read.
FactoryTest(w) ==
    /\ fPc[w] = "test"
    /\ fPc' = [fPc EXCEPT ![w] =
                  IF handle[fKind[w]] = NoClient /\ apiKey[fKind[w]]
                  THEN "construct" ELSE "return"]
    /\ UNCHANGED <<handle, apiKey, built, fKind, fNew, fRet, searchVars,
                   combineVars, extractVars, dedupeVars, batchVars,
                   workflowVars, splitVars>>

\* The right-hand side X(api_key=...) is evaluated: a client is constructed.
FactoryConstruct(w) ==
    /\ fPc[w] = "construct"
    /\ built' = [built EXCEPT ![fKind[w]] = @ + 1]
    /\ fNew' = [fNew EXCEPT ![w] = built[fKind[w]] + 1]
    /\ fPc' = [fPc EXCEPT ![w] = "assign"]
    /\ UNCHANGED <<handle, apiKey, fKind, fRet, searchVars, combineVars,
                   extractVars, dedupeVars, batchVars, workflowVars, splitVars>>

\* "cls._x = ...": the new client is stored in the class attribute.
FactoryAssign(w) ==
    /\ fPc[w] = "assign"
    /\ handle' = [handle EXCEPT ![fKind[w]] = fNew[w]]
    /\ fPc' = [fPc EXCEPT ![w] = "return"]
    /\ UNCHANGED <<apiKey, built, fKind, fNew, fRet, searchVars, combineVars,
                   extractVars, dedupeVars, batchVars, workflowVars, splitVars>>

\* "return cls._x": the attribute is read again.
FactoryReturn(w) ==
    /\ fPc[w] = "return"
    /\ fRet' = [fRet EXCEPT ![w] = handle[fKind[w]]]
    /\ fPc' = [fPc EXCEPT ![w] = "done"]
    /\ UNCHANGED <<handle, apiKey, built, fKind, fNew, searchVars, combineVars,
                   extractVars, dedupeVars, batchVars, workflowVars, splitVars>>

NextFactory ==
    \/ \E w \in Callers, k \in Kinds : FactoryCall(w, k)
    \/ \E w \in Callers : FactoryTest(w)
    \/ \E w \in Callers : FactoryConstruct(w)
    \/ \E w \in Callers : FactoryAssign(w)
    \/ \E w \in Callers : FactoryReturn(w)

SpecFactory == InitFactory /\ [][NextFactory]_vars

\* C21: the lazily constructed client handles are not state that one worker
\* writes and another reads or writes: at most one client of each kind is
\* ever constructed, also when several workers make their first call at the
\* same time.
OneClientPerKind ==
    \A k \in Kinds : built[k] <= 1

====
